---- MODULE Spec2Model ----
(***************************************************************************)
(* Model of extract_exif.py: the two-pass scan that reads the EXIF data of *)
(* every image, keeps the photos with an exact GPS position, and infers a  *)
(* position for the others from the nearest day with known positions.      *)
(*                                                                         *)
(* Coordinates are integers counting millionths of a degree: every float   *)
(* the program stores has been through round(x, 6).  Timestamps are epoch  *)
(* milliseconds; the local time zone is taken to be UTC.                   *)
(***************************************************************************)
EXTENDS Integers, Sequences, FiniteSets

VARIABLES
    files,           \* the decoded EXIF data of the sorted image files
    HEIC_SUPPORT,    \* whether pillow_heif could be imported
    pc,              \* "pass1", "pass2", "done" or "raised"
    i,               \* position of pass 1 in files
    geotagged,       \* the output list
    no_gps,          \* entries waiting for inference
    day_locations,   \* insertion-ordered mapping: day -> list of (lat, lng)
    j,               \* position of pass 2 in no_gps
    inferred_count,
    still_missing,
    exact_reported   \* the "Exact GPS" figure of the summary

vars == <<files, HEIC_SUPPORT, pc, i, geotagged, no_gps, day_locations, j,
          inferred_count, still_missing, exact_reported>>

----------------------------------------------------------------------------
(* Bounds of the model. *)

MaxFiles == 3
MaxDay == 4

----------------------------------------------------------------------------
(* Values. *)

\* Python's None, where an integer is expected (outside every coordinate
\* and every timestamp of the model).
None == -2000000000

\* The exception that escaped, "" when none did.
NoExc == ""

Abs(x) == IF x < 0 THEN -x ELSE x

\* round(): to the nearest integer. A quotient that falls on a half goes to
\* the even neighbour here; on floats the side depends on the binary value
\* of the quotient, and no property below depends on the side.
RoundDiv(num, den) ==
    LET q == num \div den
        r == num % den
    IN  IF 2 * r < den THEN q
        ELSE IF 2 * r > den THEN q + 1
        ELSE IF q % 2 = 0 THEN q ELSE q + 1

----------------------------------------------------------------------------
(* dms_to_decimal and get_gps_info. *)

\* A component of a DMS triple as the decoder hands it over: a number, a
\* non-numeric string, or None.
Num(n) == [t |-> "num", v |-> n]
BadStr == [t |-> "str", v |-> 0]
NoneComp == [t |-> "none", v |-> 0]

\* The result of a call: the value, or the exception it raised.
Ok(v) == [exc |-> NoExc, val |-> v]
Raise(e) == [exc |-> e, val |-> None]

\* float(dms[k]), k counted from 1.
FloatAt(dms, k) ==
    IF k > Len(dms) THEN Raise("IndexError")
    ELSE IF dms[k].t = "str" THEN Raise("ValueError")
    ELSE IF dms[k].t = "none" THEN Raise("TypeError")
    ELSE Ok(dms[k].v)

\* The sign the reference gives the decimal.
RefSign(ref) == IF ref \in {"S", "W"} THEN -1 ELSE 1

\* degrees + minutes / 60 + seconds / 3600, rounded to 6 places, in
\* millionths of a degree.
Decimal6(d, m, s) ==
    LET secs == d * 3600 + m * 60 + s
    IN  (secs \div 3600) * 1000000 + RoundDiv((secs % 3600) * 2500, 9)

dms_to_decimal(dms, ref) ==
    LET degrees == FloatAt(dms, 1)
        minutes == FloatAt(dms, 2)
        seconds == FloatAt(dms, 3)
    IN  IF degrees.exc # NoExc THEN degrees
        ELSE IF minutes.exc # NoExc THEN minutes
        ELSE IF seconds.exc # NoExc THEN seconds
        ELSE Ok(RefSign(ref) * Decimal6(degrees.val, minutes.val, seconds.val))

\* The exceptions get_gps_info catches.
Caught == {"KeyError", "TypeError", "ZeroDivisionError"}

\* The GPSInfo dictionary: the keys it has and their values.
GpsDict(keys, lat, latref, lng, lngref) ==
    [keys |-> keys, GPSLatitude |-> lat, GPSLatitudeRef |-> latref,
     GPSLongitude |-> lng, GPSLongitudeRef |-> lngref]

AllKeys == {"GPSLatitude", "GPSLatitudeRef", "GPSLongitude", "GPSLongitudeRef"}

\* An EXIF block without GPSInfo.
NoGpsInfo == GpsDict({}, <<>>, "", <<>>, "")

\* [exc, lat, lng]: the pair get_gps_info returns, or the exception that
\* escapes it.
GpsResult(e, lat, lng) == [exc |-> e, lat |-> lat, lng |-> lng]

get_gps_info(gps_raw) ==
    IF gps_raw.keys = {} THEN GpsResult(NoExc, None, None)
    ELSE
        LET lat == IF {"GPSLatitude", "GPSLatitudeRef"} \subseteq gps_raw.keys
                   THEN dms_to_decimal(gps_raw.GPSLatitude, gps_raw.GPSLatitudeRef)
                   ELSE Raise("KeyError")
            lng == IF {"GPSLongitude", "GPSLongitudeRef"} \subseteq gps_raw.keys
                   THEN dms_to_decimal(gps_raw.GPSLongitude, gps_raw.GPSLongitudeRef)
                   ELSE Raise("KeyError")
            exc == IF lat.exc # NoExc THEN lat.exc ELSE lng.exc
        IN  IF exc = NoExc THEN GpsResult(NoExc, lat.val, lng.val)
            ELSE IF exc \in Caught THEN GpsResult(NoExc, None, None)
            ELSE GpsResult(exc, None, None)

----------------------------------------------------------------------------
(* Calendar days and the per-day index. *)

SecondsPerDay == 86400

\* datetime.fromtimestamp(timestamp_ms / 1000).date(), as a day number.
DayOf(timestamp_ms) == (timestamp_ms \div 1000) \div SecondsPerDay

\* defaultdict(list), in insertion order: a sequence of [day, coords].
HasDay(dl, day) == \E k \in 1..Len(dl) : dl[k].day = day

PosOfDay(dl, day) == CHOOSE k \in 1..Len(dl) : dl[k].day = day

\* day_locations[day]: the list of the day.
Coords(dl, day) == dl[PosOfDay(dl, day)].coords

\* What reading day_locations[day] leaves behind: a defaultdict creates
\* the empty list of a day it does not have.
AfterRead(dl, day) ==
    IF HasDay(dl, day) THEN dl ELSE Append(dl, [day |-> day, coords |-> <<>>])

\* list.append(x)
ListPrepend(list, x) == <<x>> \o list

ListAppend(list, x) == Append(list, x)

\* day_locations[day].append(coord)
IndexInsert(dl, day, coord) ==
    LET d == AfterRead(dl, day)
        k == PosOfDay(d, day)
    IN  [d EXCEPT ![k].coords = ListAppend(@, coord)]

----------------------------------------------------------------------------
(* infer_location. *)

\* The test that replaces the best day so far.
CloserOrEqual(delta, best_delta) == best_delta = None \/ delta <= best_delta

Closer(delta, best_delta) == best_delta = None \/ delta < best_delta

\* The loop over the days of the index, from position k on.
RECURSIVE ScanDays(_, _, _, _, _)
ScanDays(dl, k, photo_date, best_day, best_delta) ==
    IF k > Len(dl) THEN [day |-> best_day, delta |-> best_delta]
    ELSE LET delta == Abs(dl[k].day - photo_date)
         IN  IF Closer(delta, best_delta)
             THEN ScanDays(dl, k + 1, photo_date, dl[k].day, delta)
             ELSE ScanDays(dl, k + 1, photo_date, best_day, best_delta)

\* Whether the best day is near enough to infer from.
WithinWindowStrict(best_day, best_delta) == ~(best_day = None \/ best_delta >= 3)

WithinWindow(best_day, best_delta) == ~(best_day = None \/ best_delta > 3)

RECURSIVE SumOf(_, _)
SumOf(coords, c) ==
    IF coords = <<>> THEN 0 ELSE Head(coords)[c] + SumOf(Tail(coords), c)

\* round(sum(c[k] for c in coords) / len(coords), 6)
AverageFirstOnly(coords, c) == Head(coords)[c]

Average(coords, c) == RoundDiv(SumOf(coords, c), Len(coords))

\* The key infer_location reads the index with.
ReadKeyPhotoDate(best_day, photo_date) == photo_date

ReadKey(best_day, photo_date) == best_day

\* [lat, lng, day_delta] as returned or the exception raised, and the index
\* as the call leaves it.
Located(lat, lng, day_delta, e, dl) ==
    [lat |-> lat, lng |-> lng, day_delta |-> day_delta, exc |-> e, index |-> dl]

infer_location(timestamp_ms, dl) ==
    IF dl = <<>> THEN Located(None, None, None, NoExc, dl)
    ELSE
        LET photo_date == DayOf(timestamp_ms)
            best == ScanDays(dl, 1, photo_date, None, None)
        IN  IF ~WithinWindow(best.day, best.delta)
            THEN Located(None, None, None, NoExc, dl)
            ELSE
                LET key == ReadKey(best.day, photo_date)
                    after == AfterRead(dl, key)
                    coords == Coords(after, key)
                IN  IF coords = <<>>
                    THEN Located(None, None, None, "ZeroDivisionError", after)
                    ELSE Located(Average(coords, 1), Average(coords, 2),
                                 best.delta, NoExc, after)

----------------------------------------------------------------------------
(* The inputs of a run. *)

MsPerDay == 86400000

\* An instant of day d: midnight on even days, the last millisecond on odd
\* days.
TimestampOn(d) == d * MsPerDay + (IF d % 2 = 1 THEN MsPerDay - 1 ELSE 0)

\* The days photos are taken on: day 0 and the last three days, so that
\* day 0 has days 2 to MaxDay away and the last three tie around the
\* middle one.
Days == {0} \cup (MaxDay - 2)..MaxDay

Timestamps == {TimestampOn(d) : d \in Days}

\* What the scan reads of one file: the value of get_date_taken, the
\* GPSInfo block, whether the suffix is .heic/.heif and whether the
\* conversion to JPEG succeeds.
Photo(timestamp, gps, heic, convertible) ==
    [timestamp |-> timestamp, gps |-> gps, heic |-> heic, convertible |-> convertible]

Triple(d, m, s) == <<Num(d), Num(m), Num(s)>>

\* 40 26 46 N, 73 59 11 W
GpsA == GpsDict(AllKeys, Triple(40, 26, 46), "N", Triple(73, 59, 11), "W")

\* 10 0 0 S, 20 30 0 E
GpsB == GpsDict(AllKeys, Triple(10, 0, 0), "S", Triple(20, 30, 0), "E")

\* Blocks the decoder can hand over with a part missing or malformed.
GpsShort == GpsDict(AllKeys, <<Num(40), Num(26)>>, "N", Triple(73, 59, 11), "W")
GpsShortLng == GpsDict(AllKeys, Triple(40, 26, 46), "N", <<Num(73)>>, "W")
GpsText == GpsDict(AllKeys, <<Num(40), BadStr, Num(46)>>, "N", Triple(73, 59, 11), "W")
GpsNoneComp == GpsDict(AllKeys, <<Num(40), Num(26), NoneComp>>, "N", Triple(73, 59, 11), "W")
GpsNoLat == GpsDict(AllKeys \ {"GPSLatitude"}, <<>>, "N", Triple(73, 59, 11), "W")
GpsNoRef == GpsDict(AllKeys \ {"GPSLongitudeRef"}, Triple(40, 26, 46), "N", Triple(73, 59, 11), "")
GpsBadLatRef == GpsDict(AllKeys, Triple(40, 26, 46), "X", Triple(73, 59, 11), "W")
GpsBadLngRef == GpsDict(AllKeys, Triple(10, 0, 0), "S", Triple(20, 30, 0), "?")

WellFormedGps == {GpsA, GpsB}
MalformedGps == {GpsShort, GpsShortLng, GpsText, GpsNoneComp, GpsNoLat, GpsNoRef}
BadRefGps == {GpsBadLatRef, GpsBadLngRef}

SeqsUpTo(S, n) == UNION {[1..k -> S] : k \in 0..n}

\* JPEG files with a well-formed GPSInfo block or none, on any day.
PlainPhotos ==
    {Photo(t, g, FALSE, TRUE) :
        t \in Timestamps \cup {None}, g \in WellFormedGps \cup {NoGpsInfo}}

\* Files of either kind, on the first or the last day.
MixedPhotos ==
    {Photo(t, g, k[1], k[2]) :
        t \in {TimestampOn(0), TimestampOn(MaxDay), None}, g \in {GpsA, NoGpsInfo},
        k \in {<<FALSE, TRUE>>, <<TRUE, TRUE>>, <<TRUE, FALSE>>}}

\* JPEG files with any GPSInfo block, on the first two days.
RawGpsPhotos ==
    {Photo(t, g, FALSE, TRUE) :
        t \in {TimestampOn(0), TimestampOn(1), None},
        g \in WellFormedGps \cup MalformedGps \cup BadRefGps \cup {NoGpsInfo}}

\* The state at the head of pass 1, line 165.
Start(fs, heic_support) ==
    /\ files = fs
    /\ HEIC_SUPPORT = heic_support
    /\ pc = "pass1"
    /\ i = 1
    /\ geotagged = <<>>
    /\ no_gps = <<>>
    /\ day_locations = <<>>
    /\ j = 0
    /\ inferred_count = 0
    /\ still_missing = 0
    /\ exact_reported = 0

Init == \E fs \in SeqsUpTo(PlainPhotos, MaxFiles) : Start(fs, TRUE)

InitMixed ==
    \E fs \in SeqsUpTo(MixedPhotos, MaxFiles), hs \in BOOLEAN : Start(fs, hs)

InitRawGps == \E fs \in SeqsUpTo(RawGpsPhotos, MaxFiles) : Start(fs, TRUE)

----------------------------------------------------------------------------
(* scan_images. *)

\* The entry of file k, without a position.
Entry(k, rec) ==
    [filename |-> k,
     path |-> IF rec.heic THEN "converted" ELSE "images",
     timestamp |-> rec.timestamp,
     lat |-> None, lng |-> None, approximate |-> FALSE]

\* entry["lat"], entry["lng"], entry["approximate"] = ...
WithLocation(entry, lat, lng, approximate) ==
    [entry EXCEPT !.lat = lat, !.lng = lng, !.approximate = approximate]

\* Line 176 negated: get_date_taken found a date.
HasDateTakenAlways(timestamp) == TRUE

HasDateTaken(timestamp) == timestamp # None

\* Whether the loop of pass 1 has run through the files.
Pass1CutShort(k, fs) == k > Len(fs) \/ k > 1

Pass1Exhausted(k, fs) == k > Len(fs)

\* count += 1
Forgotten(n) == n

Incr(n) == n + 1

\* One round of the loop of pass 1, lines 165-206.
Pass1Step ==
    /\ pc = "pass1"
    /\ ~Pass1Exhausted(i, files)
    /\ LET rec == files[i]
           gps == get_gps_info(rec.gps)
           entry == Entry(i, rec)
       IN  IF rec.heic /\ ~HEIC_SUPPORT
           THEN /\ i' = i + 1
                /\ UNCHANGED <<pc, geotagged, no_gps, day_locations>>
           ELSE IF gps.exc # NoExc
           THEN /\ pc' = "raised"
                /\ UNCHANGED <<i, geotagged, no_gps, day_locations>>
           ELSE IF ~HasDateTaken(rec.timestamp)
           THEN /\ i' = i + 1
                /\ UNCHANGED <<pc, geotagged, no_gps, day_locations>>
           ELSE IF rec.heic /\ ~rec.convertible
           THEN /\ i' = i + 1
                /\ UNCHANGED <<pc, geotagged, no_gps, day_locations>>
           ELSE IF gps.lat # None /\ gps.lng # None
           THEN /\ geotagged' = ListAppend(geotagged, WithLocation(entry, gps.lat, gps.lng, FALSE))
                /\ day_locations' = IndexInsert(day_locations, DayOf(rec.timestamp),
                                                <<gps.lat, gps.lng>>)
                /\ i' = i + 1
                /\ UNCHANGED <<pc, no_gps>>
           ELSE /\ no_gps' = ListAppend(no_gps, entry)
                /\ i' = i + 1
                /\ UNCHANGED <<pc, geotagged, day_locations>>
    /\ UNCHANGED <<files, HEIC_SUPPORT, j, inferred_count, still_missing, exact_reported>>

\* The end of pass 1 and lines 209-212.
StartPass2 ==
    /\ pc = "pass1"
    /\ Pass1Exhausted(i, files)
    /\ inferred_count' = 0
    /\ still_missing' = 0
    /\ j' = 1
    /\ pc' = "pass2"
    /\ UNCHANGED <<files, HEIC_SUPPORT, i, geotagged, no_gps, day_locations, exact_reported>>

\* One round of the loop of pass 2, lines 215-229.
Pass2Step ==
    /\ pc = "pass2"
    /\ j <= Len(no_gps)
    /\ LET entry == no_gps[j]
           found == infer_location(entry.timestamp, day_locations)
           located == WithLocation(entry, found.lat, found.lng, TRUE)
       IN  /\ day_locations' = found.index
           /\ IF found.exc # NoExc
              THEN /\ pc' = "raised"
                   /\ UNCHANGED <<j, geotagged, no_gps, inferred_count, still_missing>>
              ELSE IF found.lat # None
              THEN /\ no_gps' = [no_gps EXCEPT ![j] = located]
                   /\ geotagged' = ListAppend(geotagged, located)
                   /\ inferred_count' = Incr(inferred_count)
                   /\ j' = j + 1
                   /\ UNCHANGED <<pc, still_missing>>
              ELSE /\ still_missing' = Incr(still_missing)
                   /\ j' = j + 1
                   /\ UNCHANGED <<pc, geotagged, no_gps, inferred_count>>
    /\ UNCHANGED <<files, HEIC_SUPPORT, i, exact_reported>>

\* Lines 231-236: the summary and the return.
Summary ==
    /\ pc = "pass2"
    /\ j > Len(no_gps)
    /\ exact_reported' = Len(geotagged) - inferred_count
    /\ pc' = "done"
    /\ UNCHANGED <<files, HEIC_SUPPORT, i, geotagged, no_gps, day_locations, j,
                   inferred_count, still_missing>>

Next == Pass1Step \/ StartPass2 \/ Pass2Step \/ Summary

Spec == Init /\ [][Next]_vars

SpecMixed == InitMixed /\ [][Next]_vars

SpecRawGps == InitRawGps /\ [][Next]_vars

----------------------------------------------------------------------------
(* Vocabulary of the properties. *)

Positions(list) == 1..Len(list)

\* Pass 1 has run through the files.
PassOneOver == pc \in {"pass2", "done"} \/ (pc = "raised" /\ i > Len(files))

\* The entries of no_gps that pass 2 has dealt with.
Handled == {k \in Positions(no_gps) : PassOneOver /\ k < j}

\* Where the output holds the entry of file f.
OutputOf(f) == {m \in Positions(geotagged) : geotagged[m].filename = f}

ExactPositions == {m \in Positions(geotagged) : ~geotagged[m].approximate}

InferredPositions == {m \in Positions(geotagged) : geotagged[m].approximate}

\* The days of the records the output holds with an exact position.
ExactDays == {DayOf(geotagged[m].timestamp) : m \in ExactPositions}

ExactOn(day) == {m \in ExactPositions : DayOf(geotagged[m].timestamp) = day}

Min(S) == CHOOSE x \in S : \A y \in S : x <= y

\* The smallest distance in days from a timestamp to a day of the index.
Distance(timestamp) ==
    Min({Abs(dl.day - DayOf(timestamp)) : dl \in {day_locations[k] : k \in Positions(day_locations)}})

\* The indexed days nearest to a timestamp, and among them the day of the
\* record that pass 1 met first.
NearestDays(timestamp) ==
    LET dist == Min({Abs(d - DayOf(timestamp)) : d \in ExactDays})
    IN  {d \in ExactDays : Abs(d - DayOf(timestamp)) = dist}

FirstMet(days) == CHOOSE d \in days : \A e \in days : Min(ExactOn(d)) <= Min(ExactOn(e))

SelectedDay(timestamp) == FirstMet(NearestDays(timestamp))

RECURSIVE SumOver(_, _)
SumOver(S, field) ==
    IF S = {} THEN 0
    ELSE LET m == CHOOSE x \in S : TRUE
         IN  geotagged[m][field] + SumOver(S \ {m}, field)

----------------------------------------------------------------------------
(* C1: the day window. *)

Inferable(timestamp) == day_locations # <<>> /\ Distance(timestamp) <= 3

\* C1: a pending record that pass 2 has dealt with is in the output, as an
\* approximate record, exactly when the nearest indexed day is at most 3
\* days from its own; otherwise it is nowhere in the output, and the
\* unresolved counter counts exactly those records.
DayWindowBoundary ==
    /\ \A k \in Handled :
          /\ Inferable(no_gps[k].timestamp) =>
                /\ OutputOf(no_gps[k].filename) # {}
                /\ \A m \in OutputOf(no_gps[k].filename) : geotagged[m].approximate
          /\ ~Inferable(no_gps[k].timestamp) => OutputOf(no_gps[k].filename) = {}
    /\ pc \in {"pass2", "done"} =>
          still_missing = Cardinality({k \in Handled : ~Inferable(no_gps[k].timestamp)})

\* A run with a record inferred at distance 3 and one left out at distance 4.
DayWindowBoundaryWitness ==
    /\ pc = "done"
    /\ day_locations # <<>>
    /\ \E k \in Handled :
          /\ Distance(no_gps[k].timestamp) = 3
          /\ \E m \in OutputOf(no_gps[k].filename) : geotagged[m].approximate
    /\ \E k \in Handled :
          /\ Distance(no_gps[k].timestamp) = 4
          /\ OutputOf(no_gps[k].filename) = {}
          /\ still_missing >= 1

----------------------------------------------------------------------------
(* C2: ties between days. *)

\* C2: the position of an inferred record is the average of the day that,
\* among the indexed days nearest to its own, belongs to the exact record
\* processed first.
TieBreakFirstInserted ==
    \A m \in InferredPositions :
        LET day == SelectedDay(geotagged[m].timestamp)
        IN  /\ geotagged[m].lat = Average(Coords(day_locations, day), 1)
            /\ geotagged[m].lng = Average(Coords(day_locations, day), 2)

\* A run where two days with different averages tie and the later day,
\* met first, is the one used.
TieBreakFirstInsertedWitness ==
    /\ pc = "done"
    /\ \E m \in InferredPositions :
          LET ts == geotagged[m].timestamp
              day == SelectedDay(ts)
          IN  /\ Cardinality(NearestDays(ts)) = 2
              /\ day > DayOf(ts)
              /\ \E other \in NearestDays(ts) :
                    /\ other < DayOf(ts)
                    /\ Average(Coords(day_locations, other), 1) # geotagged[m].lat

----------------------------------------------------------------------------
(* C3: the average of the selected day. *)

\* C3 as stated: the inferred position is the exact mean of the exact
\* positions of the selected day.
InferredIsExactMean ==
    \A m \in InferredPositions :
        LET on == ExactOn(SelectedDay(geotagged[m].timestamp))
        IN  /\ Cardinality(on) * geotagged[m].lat = SumOver(on, "lat")
            /\ Cardinality(on) * geotagged[m].lng = SumOver(on, "lng")

\* C3: the inferred position is the mean of the exact positions of the
\* selected day, of all of them and of no other, rounded to 6 decimal
\* places: it is within half a millionth of a degree of the mean.
InferredIsRoundedMean ==
    \A m \in InferredPositions :
        LET on == ExactOn(SelectedDay(geotagged[m].timestamp))
            n == Cardinality(on)
        IN  /\ 2 * Abs(n * geotagged[m].lat - SumOver(on, "lat")) <= n
            /\ 2 * Abs(n * geotagged[m].lng - SumOver(on, "lng")) <= n

\* A run that infers from a day with two different exact positions whose
\* mean is not a whole number of millionths.
InferredIsRoundedMeanWitness ==
    /\ pc = "done"
    /\ \E m \in InferredPositions :
          LET on == ExactOn(SelectedDay(geotagged[m].timestamp))
          IN  /\ Cardinality(on) = 2
              /\ SumOver(on, "lat") % 2 = 1
              /\ \E a \in on : geotagged[a].lat # geotagged[m].lat

----------------------------------------------------------------------------
(* C4: the index after pass 1. *)

\* The index that inserting the exact records of the output, in their
\* order, builds.
RECURSIVE IndexOfOutput(_)
IndexOfOutput(m) ==
    IF m = 0 THEN <<>>
    ELSE IF geotagged[m].approximate THEN IndexOfOutput(m - 1)
    ELSE IndexInsert(IndexOfOutput(m - 1), DayOf(geotagged[m].timestamp),
                     <<geotagged[m].lat, geotagged[m].lng>>)

\* What pass 2 made of entry k of no_gps: the position it gave it, None
\* when it gave none.
Outcome(k) == <<no_gps[k].lat, no_gps[k].lng>>

\* C4: once pass 1 is over the index holds the positions of the exact
\* records and nothing else, whatever pass 2 has inferred since, and what
\* pass 2 made of a pending record is what that index alone gives for its
\* timestamp.
IndexFrozenAfterPass1 ==
    PassOneOver =>
        /\ day_locations = IndexOfOutput(Len(geotagged))
        /\ \A k \in Handled :
              LET alone == infer_location(no_gps[k].timestamp, IndexOfOutput(Len(geotagged)))
              IN  Outcome(k) = <<alone.lat, alone.lng>>

\* A run that inferred two records, the second from a day other than its
\* own.
IndexFrozenAfterPass1Witness ==
    /\ pc = "done"
    /\ inferred_count >= 2
    /\ \E m \in InferredPositions :
          /\ DayOf(geotagged[m].timestamp) \notin ExactDays
          /\ \E n \in InferredPositions : n < m

----------------------------------------------------------------------------
(* C5: the order of the output. *)

\* Where no_gps holds the entry of file f.
QueuedAt(f) == CHOOSE k \in Positions(no_gps) : no_gps[k].filename = f

\* C5: in the output no approximate record precedes an exact one, the
\* exact records are in the order of the input, and the approximate ones
\* are in the order of the input, which is the order they were queued in.
OutputOrder ==
    \A a, b \in Positions(geotagged) :
        a < b =>
            /\ ~(geotagged[a].approximate /\ ~geotagged[b].approximate)
            /\ geotagged[a].approximate = geotagged[b].approximate =>
                  geotagged[a].filename < geotagged[b].filename
            /\ geotagged[a].approximate /\ geotagged[b].approximate =>
                  QueuedAt(geotagged[a].filename) < QueuedAt(geotagged[b].filename)

\* A run whose output has an exact record ahead of two approximate ones
\* that the input had before it.
OutputOrderWitness ==
    /\ pc = "done"
    /\ \E a, b, c \in Positions(geotagged) :
          /\ a < b /\ b < c
          /\ ~geotagged[a].approximate
          /\ geotagged[b].approximate /\ geotagged[c].approximate
          /\ geotagged[b].filename < geotagged[a].filename

----------------------------------------------------------------------------
(* C6: records without a timestamp. *)

RECURSIVE CoordsIn(_)
CoordsIn(dl) == IF dl = <<>> THEN 0 ELSE Len(Head(dl).coords) + CoordsIn(Tail(dl))

\* The files pass 1 has read that have a timestamp and a position.
DatedAndPlaced ==
    {k \in 1..(i - 1) :
        /\ files[k].timestamp # None
        /\ get_gps_info(files[k].gps).lat # None}

\* C6: a file without a timestamp has no entry in the output nor in the
\* pending pool, even with a valid position; the counters of pass 2 count
\* pending entries only; and the index holds one position per file with a
\* timestamp and a position, none for the others.
NoTimestampDiscarded ==
    /\ \A k \in Positions(files) :
          files[k].timestamp = None =>
              /\ OutputOf(k) = {}
              /\ \A q \in Positions(no_gps) : no_gps[q].filename # k
    /\ pc \in {"pass2", "done"} => inferred_count + still_missing = Cardinality(Handled)
    /\ CoordsIn(day_locations) = Cardinality(DatedAndPlaced)

\* A finished run over an input with a positioned file without timestamp,
\* an exact record and a pending one.
NoTimestampDiscardedWitness ==
    /\ pc = "done"
    /\ \E k \in Positions(files) :
          /\ files[k].timestamp = None
          /\ get_gps_info(files[k].gps).lat # None
    /\ ExactPositions # {}
    /\ no_gps # <<>>

----------------------------------------------------------------------------
(* C9: pass 2 follows the whole of pass 1. *)

\* Whether pass 1 keeps a file as an exact record.
KeptExact(rec) ==
    /\ ~(rec.heic /\ ~HEIC_SUPPORT)
    /\ rec.timestamp # None
    /\ ~(rec.heic /\ ~rec.convertible)
    /\ get_gps_info(rec.gps).lat # None
    /\ get_gps_info(rec.gps).lng # None

\* The index of the exact records among fs, in their order. A record that
\* is not exact has no part in it, wherever it stands.
RECURSIVE IndexOfInput(_)
IndexOfInput(fs) ==
    IF fs = <<>> THEN <<>>
    ELSE LET rec == fs[Len(fs)]
             gps == get_gps_info(rec.gps)
             before == IndexOfInput(SubSeq(fs, 1, Len(fs) - 1))
         IN  IF KeptExact(rec)
             THEN IndexInsert(before, DayOf(rec.timestamp), <<gps.lat, gps.lng>>)
             ELSE before

\* C9: pass 2 runs only when pass 1 has read every file, and what it made
\* of a pending record is what the index of all the exact records of the
\* input gives for its timestamp, those after it in the input included.
InferenceAfterWholePass1 ==
    pc \in {"pass2", "done"} =>
        /\ i > Len(files)
        /\ \A k \in Handled :
              LET whole == infer_location(no_gps[k].timestamp, IndexOfInput(files))
              IN  Outcome(k) = <<whole.lat, whole.lng>>

\* A run that inferred the position of the first file of the input from
\* exact records that all come after it.
InferenceAfterWholePass1Witness ==
    /\ pc = "done"
    /\ \E m \in InferredPositions :
          /\ geotagged[m].filename = 1
          /\ Cardinality(ExactPositions) >= 2

----------------------------------------------------------------------------
(* C10: the figures of the summary. *)

\* The files with a timestamp that neither the missing HEIC support nor
\* a failed conversion excluded.
Counted ==
    {k \in Positions(files) :
        /\ files[k].timestamp # None
        /\ ~(files[k].heic /\ ~HEIC_SUPPORT)
        /\ ~(files[k].heic /\ ~files[k].convertible)}

\* C10: at the end of a run the three figures add up to the number of
\* files with a timestamp that were not excluded, the output has one
\* record per exact or inferred file, and the exact and inferred figures
\* are the numbers of records with approximate false and true.
SummaryAccounts ==
    pc = "done" =>
        /\ exact_reported + inferred_count + still_missing = Cardinality(Counted)
        /\ Len(geotagged) = exact_reported + inferred_count
        /\ exact_reported = Cardinality(ExactPositions)
        /\ inferred_count = Cardinality(InferredPositions)

\* A finished run with an exact, an inferred and an unresolved record.
SummaryAccountsWitness ==
    /\ pc = "done"
    /\ exact_reported >= 1
    /\ inferred_count >= 1
    /\ still_missing >= 1

----------------------------------------------------------------------------
(* C7, C8: malformed GPSInfo blocks. *)

HasAllKeys(gps) == gps.keys = AllKeys

BadTriple(dms) == Len(dms) < 3 \/ \E k \in Positions(dms) : dms[k].t # "num"

\* A block with a DMS component missing or not a number.
MalformedDms(gps) ==
    /\ HasAllKeys(gps)
    /\ BadTriple(gps.GPSLatitude) \/ BadTriple(gps.GPSLongitude)

\* A block with a reference that is not a hemisphere of its axis.
UnrecognizedRef(gps) ==
    /\ HasAllKeys(gps)
    /\ ~BadTriple(gps.GPSLatitude) /\ ~BadTriple(gps.GPSLongitude)
    /\ gps.GPSLatitudeRef \notin {"N", "S"} \/ gps.GPSLongitudeRef \notin {"E", "W"}

\* C7: no exception escapes the construction of a coordinate, and a file
\* read by pass 1 with a timestamp and a DMS component missing or
\* non-numeric is in the pending pool.
MalformedDmsYieldsPending ==
    /\ pc # "raised"
    /\ \A k \in 1..(i - 1) :
          (MalformedDms(files[k].gps) /\ files[k].timestamp # None) =>
              \E q \in Positions(no_gps) : no_gps[q].filename = k

\* C8: a file whose latitude or longitude reference is unrecognized is
\* never in the output as an exact record, and the index holds no
\* position of such a file.
UnrecognizedRefYieldsNoCoordinate ==
    /\ \A k \in Positions(files) :
          UnrecognizedRef(files[k].gps) =>
              \A m \in OutputOf(k) : geotagged[m].approximate
    /\ CoordsIn(day_locations) =
          Cardinality({k \in DatedAndPlaced : ~UnrecognizedRef(files[k].gps)})

====
